---- MODULE Spec2Model ----
(***************************************************************************)
(* A model of create_fasta_from_csv (src/fasta_script.py, lines 5-83).     *)
(*                                                                         *)
(* Text is modelled as a sequence of one-character strings, so that        *)
(* strip(), slicing and the 60-character wrapping are computed character   *)
(* by character.  A file written by outfile.write(text + '\n') is modelled *)
(* as a sequence of lines, one line per write call.                        *)
(***************************************************************************)
EXTENDS Integers, Sequences, FiniteSets, TLC

VARIABLES
    csv_file,          \* the file at csv_filepath: [status, fieldnames, rows]
    out_env,           \* what open(output_filepath, 'w') meets in the file system
    out_file,          \* the file at output_filepath on disk: [exists, lines]
    out_file0,         \* the file at output_filepath before the call
    target_ids,        \* argument target_ids
    extract_all_flag,  \* argument extract_all_flag
    pc,                \* position in create_fasta_from_csv
    infile,            \* TRUE while the handle of line 33 is open
    outfile,           \* the handle of line 45: [open, buffer]
    line_num,          \* raw rows the reader has consumed after the header
    extracted_count,   \* local extracted_count
    exc,               \* the exception propagating, "none" when there is none
    printed            \* the messages printed so far, in order

vars == <<csv_file, out_env, out_file, out_file0, target_ids, extract_all_flag,
          pc, infile, outfile, line_num, extracted_count, exc, printed>>

----------------------------------------------------------------------------
(* Bounds of the model. *)

MaxRows == 2
MaxPayload == 121

----------------------------------------------------------------------------
(* Program constants and Python values. *)

ID_COLUMN == "SEQ_ID"
NAME_COLUMN == "SHORT_NAME"
SEQUENCE_COLUMN == "PROTEIN_SEQUENCE"
required_headers == <<ID_COLUMN, NAME_COLUMN, SEQUENCE_COLUMN>>

LineWidth == 60

\* Python's None; no text is equal to it (texts hold one-character strings).
NoneVal == <<"<None>">>
\* The key csv.DictReader files surplus fields under (restkey = None).
RestKey == "<None>"

Whitespace == {" ", "\t"}
NA == <<"N", "/", "A">>
EmptyStr == <<>>

Range(f) == {f[i] : i \in DOMAIN f}
Min(a, b) == IF a <= b THEN a ELSE b

\* bool(x) of a text or None.
Truthy(x) == x # NoneVal /\ x # EmptyStr

\* The text an f-string renders a value as.
Format(x) == IF x = NoneVal THEN <<"N", "o", "n", "e">> ELSE x

----------------------------------------------------------------------------
(* csv.DictReader *)

\* The position of column c the row dictionary keeps: dict(zip(fieldnames, row))
\* keeps the last one of a repeated name.
LastIndex(fieldnames, c) ==
    CHOOSE i \in DOMAIN fieldnames :
        /\ fieldnames[i] = c
        /\ \A j \in DOMAIN fieldnames : fieldnames[j] = c => j <= i

\* The dictionary DictReader builds of one raw row: a field the row is too
\* short for has the value None (restval), surplus fields go under restkey.
DictRow(fieldnames, raw) ==
    [k \in Range(fieldnames) \cup
           (IF Len(raw) > Len(fieldnames) THEN {RestKey} ELSE {}) |->
        IF k \in Range(fieldnames)
        THEN IF LastIndex(fieldnames, k) <= Len(raw)
             THEN raw[LastIndex(fieldnames, k)]
             ELSE NoneVal
        ELSE SubSeq(raw, Len(fieldnames) + 1, Len(raw))]

\* dict.get(key, default): the default is used only when the key is absent.
get(row, key, default) == IF key \in DOMAIN row THEN row[key] ELSE default

\* DictReader skips rows without fields: the next raw row with fields after
\* position n, or 0 when the file has none left.
NextRow(rows, n) ==
    IF \E j \in (n + 1)..Len(rows) : rows[j] # <<>>
    THEN CHOOSE j \in (n + 1)..Len(rows) :
            /\ rows[j] # <<>>
            /\ \A k \in (n + 1)..(j - 1) : rows[k] = <<>>
    ELSE 0

----------------------------------------------------------------------------
(* The steps of the row loop, lines 49-74. *)

HeadersPresentNoSequence(fieldnames) ==
    \A i \in 1..2 : required_headers[i] \in Range(fieldnames)

\* all(header in reader.fieldnames for header in required_headers)
HeadersPresent(fieldnames) ==
    \A i \in DOMAIN required_headers : required_headers[i] \in Range(fieldnames)

is_matchAnyMember(seq_id, all_flag, ids) ==
    all_flag \/ seq_id \in ids

\* extract_all_flag or (seq_id and seq_id in target_ids)
is_match(seq_id, all_flag, ids) ==
    all_flag \/ (Truthy(seq_id) /\ seq_id \in ids)

\* str.strip(): the text without its leading and trailing whitespace.
strip(s) ==
    LET keep == {i \in DOMAIN s : s[i] \notin Whitespace}
    IN  IF keep = {} THEN EmptyStr
        ELSE LET lo == CHOOSE i \in keep : \A j \in keep : i <= j
                 hi == CHOOSE i \in keep : \A j \in keep : j <= i
             IN  SubSeq(s, lo, hi)

\* f"{seq_id}_{short_name}"
fasta_name(seq_id, short_name) == Format(seq_id) \o <<"_">> \o Format(short_name)

\* s[i:j] for 0 <= i <= j
Slice(s, i, j) == SubSeq(s, i + 1, Min(j, Len(s)))

RECURSIVE WrapFrom(_, _, _)
WrapFrom(s, i, stop) ==
    IF i >= stop THEN <<>>
    ELSE <<Slice(s, i, i + LineWidth)>> \o WrapFrom(s, i + LineWidth, stop)

WrapTrailingEmpty(s) == WrapFrom(s, 0, Len(s) + 1)

RECURSIVE WrapShortFrom(_, _)
WrapShortFrom(s, i) ==
    IF i >= Len(s) THEN <<>>
    ELSE <<Slice(s, i, i + LineWidth - 1)>> \o WrapShortFrom(s, i + LineWidth)

WrapShortSlice(s) == WrapShortFrom(s, 0)

\* for i in range(0, len(s), 60): the lines s[i:i+60] written, in order
Wrap(s) == WrapFrom(s, 0, Len(s))

\* The lines one entry adds to the output: the header line and the wrapped
\* sequence (lines 66-70).
EntryLines(name, protein_sequence) ==
    <<(<<">">> \o name)>> \o Wrap(protein_sequence)

RowEffectCountsEveryMatch(buffer, count, row, all_flag, ids) ==
    LET seq_id == get(row, ID_COLUMN, NoneVal)
        seq    == strip(get(row, SEQUENCE_COLUMN, EmptyStr))
    IN  IF ~is_match(seq_id, all_flag, ids)
        THEN [buffer |-> buffer, count |-> count]
        ELSE [buffer |-> IF Truthy(seq)
                         THEN buffer \o EntryLines(
                                fasta_name(seq_id, get(row, NAME_COLUMN, NA)), seq)
                         ELSE buffer,
              count |-> count + 1]

\* One iteration of the loop body that raises nothing (lines 50-74): the
\* buffer of outfile and extracted_count after it.
RowEffect(buffer, count, row, all_flag, ids) ==
    LET seq_id == get(row, ID_COLUMN, NoneVal)
    IN  IF ~is_match(seq_id, all_flag, ids)
        THEN [buffer |-> buffer, count |-> count]
        ELSE LET short_name       == get(row, NAME_COLUMN, NA)
                 protein_sequence == strip(get(row, SEQUENCE_COLUMN, EmptyStr))
             IN  IF Truthy(protein_sequence)
                 THEN [buffer |-> buffer \o
                                    EntryLines(fasta_name(seq_id, short_name),
                                               protein_sequence),
                       count  |-> count + 1]
                 ELSE [buffer |-> buffer, count |-> count]

\* Line 58 calls .strip() on the value of the sequence field: None has no
\* such attribute.
RaisesAttributeError(row, all_flag, ids) ==
    /\ is_match(get(row, ID_COLUMN, NoneVal), all_flag, ids)
    /\ get(row, SEQUENCE_COLUMN, EmptyStr) = NoneVal

FlushNothing(lines, buffer) == lines

\* Closing outfile writes what its buffer holds behind what the file holds.
Flush(lines, buffer) == lines \o buffer

----------------------------------------------------------------------------
(* The inputs: small files, criteria and states of the output path. *)

X1 == <<"X", "1">>
X2 == <<"X", "2">>
Name1 == <<"n">>
Other == <<"x">>

Alphabet == <<"A", "C", "D", "E", "F", "G", "H">>
Body(n) == [i \in 1..n |-> Alphabet[((i - 1) % Len(Alphabet)) + 1]]
Padded(s) == <<" ", "\t">> \o s \o <<" ">>

\* Sequence payloads: empty, blank, and lengths around the multiples of
\* LineWidth, some with surrounding whitespace.
Payloads ==
    { EmptyStr, <<" ", " ">>, Padded(Body(1)), Padded(Body(LineWidth + 1)),
      Body(2 * LineWidth), Body(MaxPayload) }

\* The fields of a data row, before they are laid out in the column order of
\* a header: cut is the number of trailing fields the row lacks (-1: the row
\* has one surplus field).
Fields ==
    {[id |-> X1, name |-> Name1, seq |-> p, cut |-> 0] : p \in Payloads}
    \cup {[id |-> X2, name |-> Name1, seq |-> Body(LineWidth + 1), cut |-> 0],
          [id |-> EmptyStr, name |-> Name1, seq |-> Body(1), cut |-> 0],
          [id |-> X1, name |-> Name1, seq |-> Body(1), cut |-> 1],
          [id |-> X1, name |-> Name1, seq |-> Body(1), cut |-> -1]}

\* A raw row as the csv reader yields it under header h.
RawRow(h, f) ==
    LET full == [i \in 1..Len(h) |->
                    CASE h[i] = ID_COLUMN -> f.id
                      [] h[i] = NAME_COLUMN -> f.name
                      [] h[i] = SEQUENCE_COLUMN -> f.seq
                      [] OTHER -> Other]
    IN  IF f.cut = -1 THEN Append(full, Other)
        ELSE SubSeq(full, 1, Len(h) - f.cut)

\* The raw rows a file may hold under header h; <<>> is a line without fields.
RawRows(h) == {RawRow(h, f) : f \in Fields} \cup {<<>>}

RowSeqs(h, n) == UNION {[1..k -> RawRows(h)] : k \in 0..n}

ValidHeaders ==
    { <<ID_COLUMN, NAME_COLUMN, SEQUENCE_COLUMN>>,
      <<SEQUENCE_COLUMN, "NOTES", ID_COLUMN, NAME_COLUMN>> }

InvalidHeaders ==
    { <<ID_COLUMN, NAME_COLUMN>>, <<>>,
      <<"seq_id", NAME_COLUMN, SEQUENCE_COLUMN>> }

\* The criteria: [all |-> extract_all_flag, ids |-> target_ids]
Criteria ==
    { [all |-> TRUE, ids |-> {}],
      [all |-> FALSE, ids |-> {X1}],
      [all |-> FALSE, ids |-> {EmptyStr, X2}] }

OldLines == << <<">", "o", "l", "d">>, <<"A">> >>

\* States of the output path: no file yet, a file with content, a path whose
\* directory does not exist, a path that may not be written, and a device
\* that accepts the open but has no room for all the data.
OutEnvs == {"absent", "present", "nodir", "denied", "full"}

OutFileOf(env) ==
    IF env = "present" THEN [exists |-> TRUE, lines |-> OldLines]
    ELSE [exists |-> FALSE, lines |-> <<>>]

Init ==
    /\ \/ \E h \in ValidHeaders : \E r \in RowSeqs(h, MaxRows) :
            /\ csv_file = [status |-> "ok", fieldnames |-> h, rows |-> r]
            /\ out_env \in {"present", "full"}
       \/ \E h \in ValidHeaders : \E r \in RowSeqs(h, 1) :
            /\ csv_file = [status |-> "ok", fieldnames |-> h, rows |-> r]
            /\ out_env \in {"absent", "nodir", "denied"}
       \/ \E h \in InvalidHeaders : \E r \in RowSeqs(h, 1) :
            /\ csv_file = [status |-> "ok", fieldnames |-> h, rows |-> r]
            /\ out_env \in OutEnvs
       \/ /\ csv_file \in
                {[status |-> "ok", fieldnames |-> NoneVal, rows |-> <<>>],
                 [status |-> "missing", fieldnames |-> NoneVal, rows |-> <<>>],
                 [status |-> "denied", fieldnames |-> NoneVal, rows |-> <<>>]}
          /\ out_env \in OutEnvs
    /\ out_file = OutFileOf(out_env)
    /\ out_file0 = out_file
    /\ \E c \in Criteria :
          /\ extract_all_flag = c.all
          /\ target_ids = c.ids
    /\ pc = "open_in"
    /\ infile = FALSE
    /\ outfile = [open |-> FALSE, buffer |-> <<>>]
    /\ line_num = 0
    /\ extracted_count = 0
    /\ exc = "none"
    /\ printed = <<>>

----------------------------------------------------------------------------
(* The steps of create_fasta_from_csv. *)

Message(m, n) == [msg |-> m, n |-> n]
Say(m, n) == printed' = Append(printed, Message(m, n))

\* Line 33: open(csv_filepath, mode='r', ...)
OpenInput ==
    /\ pc = "open_in"
    /\ IF csv_file.status = "missing"
       THEN /\ exc' = "FileNotFoundError"
            /\ pc' = "except"
            /\ UNCHANGED infile
       ELSE IF csv_file.status = "denied"
       THEN /\ exc' = "PermissionError"
            /\ pc' = "except"
            /\ UNCHANGED infile
       ELSE /\ infile' = TRUE
            /\ pc' = "check"
            /\ UNCHANGED exc
    /\ UNCHANGED <<csv_file, out_env, out_file, out_file0, target_ids,
                   extract_all_flag, outfile, line_num, extracted_count, printed>>

\* Lines 34-42: the reader takes the first line as fieldnames (None when the
\* file has no line), and the required headers are looked up in it.
CheckHeaders ==
    /\ pc = "check"
    /\ IF csv_file.fieldnames = NoneVal
       THEN /\ exc' = "TypeError"
            /\ pc' = "exit_in"
            /\ UNCHANGED printed
       ELSE IF ~HeadersPresent(csv_file.fieldnames)
       THEN /\ Say("MissingColumns", 0)
            /\ pc' = "exit_in"
            /\ UNCHANGED exc
       ELSE /\ pc' = "open_out"
            /\ UNCHANGED <<exc, printed>>
    /\ UNCHANGED <<csv_file, out_env, out_file, out_file0, target_ids,
                   extract_all_flag, infile, outfile, line_num, extracted_count>>

\* Lines 45-46: open(output_filepath, mode='w', ...) truncates or creates the
\* file; then the start message is printed.
OpenOutput ==
    /\ pc = "open_out"
    /\ IF out_env = "nodir"
       THEN /\ exc' = "FileNotFoundError"
            /\ pc' = "exit_in"
            /\ UNCHANGED <<out_file, outfile, printed>>
       ELSE IF out_env = "denied"
       THEN /\ exc' = "PermissionError"
            /\ pc' = "exit_in"
            /\ UNCHANGED <<out_file, outfile, printed>>
       ELSE /\ out_file' = [exists |-> TRUE, lines |-> <<>>]
            /\ outfile' = [open |-> TRUE, buffer |-> <<>>]
            /\ Say("Start", 0)
            /\ pc' = "loop"
            /\ UNCHANGED exc
    /\ UNCHANGED <<csv_file, out_env, out_file0, target_ids, extract_all_flag,
                   infile, line_num, extracted_count>>

\* Lines 49-74: one iteration of "for row in reader".
ProcessRow ==
    /\ pc = "loop"
    /\ NextRow(csv_file.rows, line_num) # 0
    /\ LET j   == NextRow(csv_file.rows, line_num)
           row == DictRow(csv_file.fieldnames, csv_file.rows[j])
       IN  /\ line_num' = j
           /\ IF RaisesAttributeError(row, extract_all_flag, target_ids)
              THEN /\ exc' = "AttributeError"
                   /\ pc' = "exit_out"
                   /\ UNCHANGED <<outfile, extracted_count>>
              ELSE LET r == RowEffect(outfile.buffer, extracted_count, row,
                                      extract_all_flag, target_ids)
                   IN  /\ outfile' = [outfile EXCEPT !.buffer = r.buffer]
                       /\ extracted_count' = r.count
                       /\ UNCHANGED <<exc, pc>>
    /\ UNCHANGED <<csv_file, out_env, out_file, out_file0, target_ids,
                   extract_all_flag, infile, printed>>

\* Line 49: the reader has no row left.
EndOfRows ==
    /\ pc = "loop"
    /\ NextRow(csv_file.rows, line_num) = 0
    /\ line_num' = Len(csv_file.rows)
    /\ pc' = "exit_out"
    /\ UNCHANGED <<csv_file, out_env, out_file, out_file0, target_ids,
                   extract_all_flag, infile, outfile, extracted_count, exc, printed>>

\* Leaving "with open(output_filepath ...)" (line 45) closes outfile: the
\* buffer is written out and the handle released.  On a full device part of
\* the buffer is written and the close raises OSError.
ExitOutfile ==
    /\ pc = "exit_out"
    /\ outfile' = [open |-> FALSE, buffer |-> <<>>]
    /\ IF out_env = "full" /\ outfile.buffer # <<>>
       THEN /\ \E k \in 0..(Len(outfile.buffer) - 1) :
                 out_file' = [out_file EXCEPT
                     !.lines = Flush(out_file.lines, SubSeq(outfile.buffer, 1, k))]
            /\ exc' = "OSError"
       ELSE /\ out_file' = [out_file EXCEPT
                               !.lines = Flush(out_file.lines, outfile.buffer)]
            /\ UNCHANGED exc
    /\ pc' = IF exc' = "none" THEN "report" ELSE "exit_in"
    /\ UNCHANGED <<csv_file, out_env, out_file0, target_ids, extract_all_flag,
                   infile, line_num, extracted_count, printed>>

\* Lines 76-78: the completion message with the count.
Report ==
    /\ pc = "report"
    /\ Say("Complete", extracted_count)
    /\ pc' = "exit_in"
    /\ UNCHANGED <<csv_file, out_env, out_file, out_file0, target_ids,
                   extract_all_flag, infile, outfile, line_num, extracted_count, exc>>

ExitInfileLeaksOnError ==
    /\ pc = "exit_in"
    /\ infile' = (exc # "none")
    /\ pc' = IF exc = "none" THEN "done" ELSE "except"
    /\ UNCHANGED <<csv_file, out_env, out_file, out_file0, target_ids,
                   extract_all_flag, outfile, line_num, extracted_count, exc, printed>>

\* Leaving "with open(csv_filepath ...)" (line 33) closes infile.
ExitInfile ==
    /\ pc = "exit_in"
    /\ infile' = FALSE
    /\ pc' = IF exc = "none" THEN "done" ELSE "except"
    /\ UNCHANGED <<csv_file, out_env, out_file, out_file0, target_ids,
                   extract_all_flag, outfile, line_num, extracted_count, exc, printed>>

\* Lines 80-83: the two handlers.
Except ==
    /\ pc = "except"
    /\ IF exc = "FileNotFoundError"
       THEN Say("SourceNotFound", 0)
       ELSE Say("Unexpected", 0)
    /\ pc' = "done"
    /\ UNCHANGED <<csv_file, out_env, out_file, out_file0, target_ids,
                   extract_all_flag, infile, outfile, line_num, extracted_count, exc>>

Next ==
    \/ OpenInput
    \/ CheckHeaders
    \/ OpenOutput
    \/ ProcessRow
    \/ EndOfRows
    \/ ExitOutfile
    \/ Report
    \/ ExitInfile
    \/ Except

Spec == Init /\ [][Next]_vars

----------------------------------------------------------------------------
(* What the properties speak of. *)

\* The outcome the run has reported: the message other than the start
\* message, "none" while there is none.
Outcome ==
    IF \E i \in DOMAIN printed : printed[i].msg # "Start"
    THEN printed[CHOOSE i \in DOMAIN printed : printed[i].msg # "Start"].msg
    ELSE "none"

SinkOpened == \E i \in DOMAIN printed : printed[i].msg = "Start"

\* Everything written to the output so far, flushed or not.
Written == out_file.lines \o outfile.buffer

HeaderValid ==
    /\ csv_file.status = "ok"
    /\ csv_file.fieldnames # NoneVal
    /\ \A c \in {ID_COLUMN, NAME_COLUMN, SEQUENCE_COLUMN} :
          \E i \in DOMAIN csv_file.fieldnames : csv_file.fieldnames[i] = c

\* The records of the first n raw rows of the source, lines without fields
\* left out, in source order.
Records(n) ==
    LET HasFields(raw) == raw # <<>>
        data == SelectSeq(SubSeq(csv_file.rows, 1, n), HasFields)
    IN  [i \in 1..Len(data) |-> DictRow(csv_file.fieldnames, data[i])]

Absent(row, col) == row[col] = NoneVal

\* The match condition of a record under the criterion of the run.
MatchCondition(row) ==
    \/ extract_all_flag
    \/ /\ ~Absent(row, ID_COLUMN)
       /\ row[ID_COLUMN] # EmptyStr
       /\ row[ID_COLUMN] \in target_ids

\* The payload of a record with surrounding whitespace removed.
RECURSIVE DropLeading(_)
DropLeading(s) ==
    IF s # <<>> /\ Head(s) \in Whitespace THEN DropLeading(Tail(s)) ELSE s
RECURSIVE DropTrailing(_)
DropTrailing(s) ==
    IF s # <<>> /\ s[Len(s)] \in Whitespace
    THEN DropTrailing(SubSeq(s, 1, Len(s) - 1)) ELSE s
TrimmedPayload(row) ==
    IF Absent(row, SEQUENCE_COLUMN) THEN EmptyStr
    ELSE DropTrailing(DropLeading(row[SEQUENCE_COLUMN]))

\* A record that is to produce an entry.
Selected(row) == MatchCondition(row) /\ TrimmedPayload(row) # EmptyStr

SelectedRecords(n) == SelectSeq(Records(n), Selected)

IsHeaderLine(line) == line # <<>> /\ line[1] = ">"

\* The entries a FASTA text holds: each header line with the sequence lines
\* below it.
Entries(lines) ==
    LET AtHeader(i) == IsHeaderLine(lines[i])
        h == SelectSeq([i \in 1..Len(lines) |-> i], AtHeader)
    IN  [k \in 1..Len(h) |->
            [header |-> lines[h[k]],
             seqlines |-> SubSeq(lines, h[k] + 1,
                                 IF k < Len(h) THEN h[k + 1] - 1 ELSE Len(lines))]]

RECURSIVE Concat(_)
Concat(ss) == IF ss = <<>> THEN <<>> ELSE Head(ss) \o Concat(Tail(ss))

\* The states in which everything the loop has written is in Written: the
\* loop itself, and what follows it unless the close lost part of the buffer.
OutputVisible ==
    /\ SinkOpened
    /\ exc # "OSError"

\* The lines the entries of the first n raw rows make up.
RECURSIVE ExpectedLinesOf(_)
ExpectedLinesOf(recs) ==
    IF recs = <<>> THEN <<>>
    ELSE EntryLines(fasta_name(Head(recs)[ID_COLUMN], Head(recs)[NAME_COLUMN]),
                    TrimmedPayload(Head(recs)))
         \o ExpectedLinesOf(Tail(recs))
ExpectedLines(n) == ExpectedLinesOf(SelectedRecords(n))

IsPrefix(s, t) == Len(s) <= Len(t) /\ s = SubSeq(t, 1, Len(s))

CompleteCount == printed[CHOOSE i \in DOMAIN printed : printed[i].msg = "Complete"].n

----------------------------------------------------------------------------
(* The claims. *)

\* C1: when the run completes, the count it reports is the number of rows
\* that match the criterion and have a non-empty trimmed payload; and at every
\* turn of the row loop (before each row is taken and after the last)
\* extracted_count is the number of header lines written so far.
C1_CountEqualsSelectedRows ==
    /\ Outcome = "Complete" =>
          CompleteCount = Len(SelectedRecords(Len(csv_file.rows)))
    /\ pc = "loop" =>
          extracted_count =
             Cardinality({i \in DOMAIN Written : IsHeaderLine(Written[i])})

C1_Witness ==
    /\ Outcome = "Complete"
    /\ CompleteCount = 1
    /\ Len(Records(Len(csv_file.rows))) = 2
    /\ \E i \in 1..2 :
          LET r == Records(Len(csv_file.rows))[i]
          IN  MatchCondition(r) /\ TrimmedPayload(r) = EmptyStr
                /\ r[SEQUENCE_COLUMN] # EmptyStr

\* C2: when the header of the source lacks a required column name, no row is
\* read, the output is never opened and stays as it was before the call, and
\* the run ends with the missing-columns message.
C2_MissingHeaderLeavesSinkUntouched ==
    (csv_file.status = "ok" /\ csv_file.fieldnames # NoneVal /\ ~HeaderValid) =>
        /\ line_num = 0
        /\ out_file = out_file0
        /\ ~outfile.open /\ outfile.buffer = <<>>
        /\ ~SinkOpened
        /\ Outcome \in {"none", "MissingColumns"}
        /\ pc = "done" => Outcome = "MissingColumns"

C2_Witness ==
    /\ pc = "done"
    /\ Outcome = "MissingColumns"
    /\ csv_file.fieldnames = <<ID_COLUMN, NAME_COLUMN>>
    /\ csv_file.rows # <<>>
    /\ out_file0.exists /\ out_file = out_file0

\* C3: what has been written is one entry for each row read so far that
\* matches the criterion and has a non-empty trimmed payload, in source order,
\* each under the header line '>' SEQ_ID '_' SHORT_NAME, and nothing else:
\* repeated identifiers give an entry each, a row that does not match gives
\* none.
C3_EntriesAreSelectedRowsInOrder ==
    OutputVisible =>
        LET sel == SelectedRecords(line_num)
            ent == Entries(Written)
        IN  /\ Len(ent) = Len(sel)
            /\ Written # <<>> => IsHeaderLine(Written[1])
            /\ \A k \in 1..Len(sel) :
                  /\ (~Absent(sel[k], ID_COLUMN) /\ ~Absent(sel[k], NAME_COLUMN)) =>
                        ent[k].header = <<">">> \o sel[k][ID_COLUMN] \o <<"_">>
                                           \o sel[k][NAME_COLUMN]
                  /\ k <= Len(ent) => ent[k].seqlines # <<>>
                  /\ k <= Len(ent) =>
                        ent[k].seqlines[1] =
                            SubSeq(TrimmedPayload(sel[k]), 1, Len(ent[k].seqlines[1]))

C3_Witness ==
    /\ Outcome = "Complete"
    /\ ~extract_all_flag /\ target_ids = {X1}
    /\ Len(csv_file.rows) = 2
    /\ \A i \in 1..2 : csv_file.rows[i] # <<>>
    /\ Records(2)[1][ID_COLUMN] = X1 /\ Records(2)[2][ID_COLUMN] = X1
    /\ Records(2)[1][SEQUENCE_COLUMN] # Records(2)[2][SEQUENCE_COLUMN]
    /\ Len(Entries(out_file.lines)) = 2

\* C4: an entry whose trimmed payload has n >= 1 characters has exactly
\* ceil(n / 60) sequence lines; each but the last has 60 characters, the last
\* between 1 and 60, and none is empty.
C4_SequenceLinesAreFullWidth ==
    OutputVisible =>
        LET sel == SelectedRecords(line_num)
            ent == Entries(Written)
        IN  /\ Len(ent) = Len(sel)
            /\ \A k \in 1..Len(ent) :
                  LET n  == Len(TrimmedPayload(sel[k]))
                      ls == ent[k].seqlines
                  IN  /\ n >= 1
                      /\ Len(ls) = (n + LineWidth - 1) \div LineWidth
                      /\ \A j \in 1..(Len(ls) - 1) : Len(ls[j]) = LineWidth
                      /\ Len(ls[Len(ls)]) \in 1..LineWidth

C4_Witness ==
    /\ Outcome = "Complete"
    /\ LET ent == Entries(out_file.lines)
       IN  /\ Len(ent) = 2
           /\ Len(ent[1].seqlines) = 2
           /\ Len(ent[1].seqlines[1]) = LineWidth /\ Len(ent[1].seqlines[2]) = 1
           /\ Len(ent[2].seqlines) = 2
           /\ Len(ent[2].seqlines[1]) = LineWidth
           /\ Len(ent[2].seqlines[2]) = LineWidth
           /\ Len(out_file.lines) = 6

\* C5: the sequence lines of an entry, joined in order, are the payload of
\* its row with the surrounding whitespace removed.
C5_RoundTrip ==
    OutputVisible =>
        LET sel == SelectedRecords(line_num)
            ent == Entries(Written)
        IN  /\ Len(ent) = Len(sel)
            /\ \A k \in 1..Len(ent) :
                  Concat(ent[k].seqlines) = TrimmedPayload(sel[k])

C5_Witness ==
    /\ Outcome = "Complete"
    /\ \E i \in 1..Len(Records(Len(csv_file.rows))) :
          LET r == Records(Len(csv_file.rows))[i]
          IN  /\ Selected(r)
              /\ r[SEQUENCE_COLUMN] # TrimmedPayload(r)
              /\ Len(TrimmedPayload(r)) > LineWidth
    /\ Len(Entries(out_file.lines)) = 2
    /\ Len(out_file.lines) >= 6

\* C6 as claimed: a terminal state either follows a completed run, with an
\* entry in the output for every selected row, or follows an aborted run that
\* wrote nothing; none has a failure outcome and an output with some but not
\* all of the entries.
C6_AsClaimed ==
    pc = "done" =>
        \/ /\ Outcome = "Complete"
           /\ out_file.lines = ExpectedLines(Len(csv_file.rows))
        \/ /\ Outcome # "Complete"
           /\ out_file = out_file0 \/ out_file.lines = <<>>

\* C6, amended: a terminal state follows a completed run, with exactly the
\* entries of all selected rows in the output; or a run that ended before the
\* output was opened, with the output as it was before the call; or a run
\* that failed after the output was opened, and then the output file exists
\* and holds a prefix of the lines of the entries of the rows read before the
\* failure: nothing is rolled back.
C6_CompleteUntouchedOrPrefix ==
    pc = "done" =>
        \/ /\ Outcome = "Complete"
           /\ out_file = [exists |-> TRUE,
                          lines |-> ExpectedLines(Len(csv_file.rows))]
        \/ /\ Outcome \in {"SourceNotFound", "MissingColumns", "Unexpected"}
           /\ ~SinkOpened
           /\ out_file = out_file0
        \/ /\ Outcome = "Unexpected"
           /\ SinkOpened
           /\ out_file.exists
           /\ IsPrefix(out_file.lines, ExpectedLines(line_num))
           /\ exc = "OSError" => out_file.lines # ExpectedLines(line_num)
           /\ exc # "OSError" => out_file.lines = ExpectedLines(line_num)

C6_Witness ==
    /\ pc = "done"
    /\ Outcome = "Unexpected"
    /\ exc = "AttributeError"
    /\ out_file0.exists
    /\ Len(Entries(out_file.lines)) = 1
    /\ Len(SelectedRecords(Len(csv_file.rows))) = 1
    /\ line_num = 2

\* C7 as claimed: a source that exists but has no header to parse ends with
\* the missing-columns outcome or a malformed-source outcome, never with the
\* generic unexpected-error outcome, and the output is not written.
C7_AsClaimed ==
    (pc = "done" /\ csv_file.status = "ok" /\ csv_file.fieldnames = NoneVal) =>
        /\ Outcome \in {"MissingColumns", "MalformedSource"}
        /\ out_file = out_file0

\* C8 as claimed: the source-not-found outcome is reported exactly when the
\* source is not there to be opened, and then the output is untouched; every
\* other failure, a failure to open the output included, is reported as the
\* unexpected-error outcome.
C8_AsClaimed ==
    pc = "done" =>
        /\ Outcome = "SourceNotFound" <=> csv_file.status = "missing"
        /\ Outcome = "SourceNotFound" => out_file = out_file0
        /\ (csv_file.status # "missing" /\ exc # "none") => Outcome = "Unexpected"

\* C9 as claimed: a matching row that lacks the payload field is skipped and
\* the run goes on to complete; a matching row that lacks the name field is
\* written under the name "N/A".
C9_AsClaimed ==
    /\ (pc = "done" /\ HeaderValid /\ out_env \in {"absent", "present"}) =>
          Outcome = "Complete"
    /\ OutputVisible =>
          LET sel == SelectedRecords(line_num)
              ent == Entries(Written)
          IN  \A k \in 1..Len(sel) :
                 (k <= Len(ent) /\ ~Absent(sel[k], ID_COLUMN)
                    /\ Absent(sel[k], NAME_COLUMN)) =>
                     ent[k].header = <<">">> \o sel[k][ID_COLUMN] \o <<"_">> \o NA

\* C10 as claimed: every handle that was opened is closed before the outcome
\* is reported.
C10_AsClaimed ==
    Outcome # "none" => ~infile /\ ~outfile.open

\* C10, amended: every handle that was opened is closed before the function
\* returns; outfile is closed and its buffer written out before the
\* completion message is printed, and both handles are closed before the
\* not-found or unexpected-error message is printed; infile is still open
\* while the missing-columns message and the completion message are printed.
C10_HandlesClosedOnEveryExit ==
    /\ pc = "done" => ~infile /\ ~outfile.open
    /\ Outcome = "Complete" =>
          /\ ~outfile.open
          /\ outfile.buffer = <<>>
          /\ out_file.lines = ExpectedLines(Len(csv_file.rows))
    /\ Outcome \in {"SourceNotFound", "Unexpected"} => ~infile /\ ~outfile.open
    /\ (Outcome \in {"MissingColumns", "Complete"} /\ pc # "done") => infile
    /\ outfile.open => infile

C10_Witness ==
    /\ pc = "done"
    /\ Outcome = "Unexpected"
    /\ exc = "AttributeError"
    /\ SinkOpened
    /\ line_num = 2
    /\ ~infile /\ ~outfile.open
    /\ out_file.lines # <<>>

====
